---------------------------- MODULE Spec2Model ----------------------------
(***************************************************************************)
(* A model of FRIVail: the byte -> MLE embedder (src/src/poly.rs), the     *)
(* Reed-Solomon encode / decode / erasure reconstruction utilities and the *)
(* commit / prove / verify / inclusion-proof session (src/src/frivail.rs). *)
(*                                                                         *)
(* Three specifications share the module:                                  *)
(*   SpecMle   bytes_to_packed_mle on byte strings;                        *)
(*   SpecCode  encode_codeword, decode_codeword, reconstruct_codeword_naive*)
(*             over a binary field GF(2^FieldBits);                        *)
(*   Spec      one commit / prove / verify session with inclusion proofs.  *)
(***************************************************************************)
EXTENDS Integers, Sequences, FiniteSets, TLC

VARIABLES
    data,        \* poly.rs: the byte slice handed to bytes_to_packed_mle
    packed       \* poly.rs: the PackedMLE returned (status "none" before the call)

VARIABLES
    fri_params,  \* frivail.rs: the FRIParams returned by initialize_fri_context
    msg_values,  \* the scalar vector handed to encode_codeword
    codeword,    \* the result of encode_codeword
    corrupted,   \* the codeword handed to reconstruct_codeword_naive
    erased,      \* the corrupted_indices handed to reconstruct_codeword_naive
    recon,       \* the result of reconstruct_codeword_naive and the codeword after it
    decoded      \* the result of decode_codeword

VARIABLES
    commit_output,    \* frivail.rs: the result of commit
    evaluation_pt,    \* the point the evaluation is proved at
    prove_out,        \* the result of prove
    extra_query,      \* the result of open and the index opened
    verify_out,       \* the arguments and the result of verify
    proof_reader,     \* the result of inclusion_proof and the index opened
    inclusion_out     \* the value checked and the result of verify_inclusion_proof

VARIABLES
    friVail,          \* frivail.rs: the instance returned by new
    fri_context,      \* the result of initialize_fri_context on the instance
    random_points,    \* the results of the calls of calculate_evaluation_point_random
    claim_out         \* the result of calculate_evaluation_claim

VARIABLES
    verifier_transcript,  \* frivail.rs: one VerifierTranscript object handed to the calls
    calls             \* the calls made on it: name, result, the object before and after

varsMle == <<data, packed>>

varsTranscript == <<verifier_transcript, calls>>

varsInstance == <<friVail, fri_context, random_points, claim_out>>

varsCode == <<fri_params, msg_values, codeword, corrupted, erased, recon, decoded>>

varsPcs == <<commit_output, evaluation_pt, prove_out, extra_query, verify_out,
             proof_reader, inclusion_out>>

(***************************************************************************)
(* Bounds of the model.                                                    *)
(***************************************************************************)
MaxDataLen == 300
FieldBits == 4
MaxLogLen == 3
MaxErased == 2
MaxSessionLogLen == 2
MaxInstanceLog == 2
MaxCalls == 2

\* the calls made on one verifier transcript object
MaxTranscriptCalls == 3

(***************************************************************************)
(* Integer helpers of the Rust standard library, as the code uses them.    *)
(***************************************************************************)
RECURSIVE pow2(_)
pow2(e) == IF e = 0 THEN 1 ELSE 2 * pow2(e - 1)

\* usize::div_ceil
div_ceil(a, b) == (a + b - 1) \div b

\* usize::next_power_of_two: the smallest power of two >= x (1 for x = 0)
RECURSIVE next_power_of_two_from(_, _)
next_power_of_two_from(x, p) == IF p >= x THEN p ELSE next_power_of_two_from(x, 2 * p)

next_power_of_two(x) == next_power_of_two_from(x, 1)

\* usize::ilog2 (x >= 1): floor of the base-2 logarithm
RECURSIVE ilog2(_)
ilog2(x) == IF x <= 1 THEN 0 ELSE 1 + ilog2(x \div 2)

\* Vec::resize(new_len, value): truncates when new_len < len, else appends value
resize(v, new_len, value) ==
    [i \in 1..new_len |-> IF i <= Len(v) THEN v[i] ELSE value]

\* slice::chunks(size): consecutive chunks, the last one possibly shorter
chunks(s, size) ==
    [c \in 1..div_ceil(Len(s), size) |->
        SubSeq(s, (c - 1) * size + 1,
               IF c * size <= Len(s) THEN c * size ELSE Len(s))]

(***************************************************************************)
(* poly.rs.  A 128-bit scalar is kept as its 16 little-endian bytes (the   *)
(* base-256 digits of the u128, least significant first): from_le_bytes    *)
(* and P::Scalar::from(u128) are bijections on that representation.        *)
(***************************************************************************)
BYTES_PER_ELEMENT == 16
BITS_PER_ELEMENT == 128

ZeroScalar == [k \in 1..BYTES_PER_ELEMENT |-> 0]

\* A plausible slip: the chunk copied to the high end of the array.
bytes_to_scalar_high(chunk) ==
    [k \in 1..BYTES_PER_ELEMENT |->
        IF k > BYTES_PER_ELEMENT - Len(chunk)
        THEN chunk[k - (BYTES_PER_ELEMENT - Len(chunk))] ELSE 0]

\* bytes_array = [0; 16]; bytes_array[..chunk.len()] = chunk; from_le_bytes
bytes_to_scalar(chunk) ==
    [k \in 1..BYTES_PER_ELEMENT |-> IF k <= Len(chunk) THEN chunk[k] ELSE 0]

\* A plausible slip: the element count taken by floor division.
num_elements_floor(len) == len \div BITS_PER_ELEMENT

\* let num_elements = data.len().div_ceil(BITS_PER_ELEMENT)
num_elements_of(len) == div_ceil(len, BITS_PER_ELEMENT)

\* FieldBuffer::from_values for P = B128 (one scalar per packed element)
FieldBuffer_from_values(values) ==
    [log_len |-> ilog2(Len(values)), values |-> values]

bytes_to_packed_mle(d) ==
    LET num_elements == num_elements_of(Len(d))
        padded_size == next_power_of_two(num_elements)
        big_field_n_vars == ilog2(padded_size)
        packed_size == pow2(big_field_n_vars)
        cs == chunks(d, BYTES_PER_ELEMENT)
        collected == [c \in 1..Len(cs) |-> bytes_to_scalar(cs[c])]
        packed_values == resize(collected, packed_size, ZeroScalar)
        packed_mle == FieldBuffer_from_values(packed_values)
    IN  [status |-> "ok",
         packed_mle |-> packed_mle,
         packed_values |-> packed_values,
         total_n_vars |-> packed_mle.log_len]

(***************************************************************************)
(* The scalar field of the coding utilities.  The code works over the      *)
(* 128-bit binary field B128; the model works over GF(2^FieldBits), a      *)
(* binary field of the same shape: an element is its bit pattern,          *)
(* F::from(i) is the element with the bits of i, addition is XOR and       *)
(* multiplication is carry-less multiplication modulo an irreducible       *)
(* polynomial of degree FieldBits.                                         *)
(***************************************************************************)
FieldSize == pow2(FieldBits)

FieldElems == 0..(FieldSize - 1)

\* An irreducible polynomial of degree k over GF(2), as a bit pattern.
IrreduciblePoly(k) ==
    CASE k = 1 -> 3
      [] k = 2 -> 7
      [] k = 3 -> 11
      [] k = 4 -> 19
      [] k = 5 -> 37
      [] k = 6 -> 67
      [] k = 7 -> 131
      [] k = 8 -> 283

RECURSIVE xor(_, _)
xor(a, b) ==
    IF a = 0 THEN b
    ELSE IF b = 0 THEN a
    ELSE (((a % 2) + (b % 2)) % 2) + 2 * xor(a \div 2, b \div 2)

xtime(a) ==
    IF 2 * a >= FieldSize THEN xor(2 * a, IrreduciblePoly(FieldBits)) ELSE 2 * a

RECURSIVE clmul(_, _)
clmul(a, b) ==
    IF b = 0 THEN 0
    ELSE xor(IF b % 2 = 1 THEN a ELSE 0, clmul(xtime(a), b \div 2))

AddTable == [a \in FieldElems |-> [b \in FieldElems |-> xor(a, b)]]

MulTable == [a \in FieldElems |-> [b \in FieldElems |-> clmul(a, b)]]

InvTable ==
    [a \in FieldElems |->
        IF a = 0 THEN 0 ELSE CHOOSE b \in FieldElems : MulTable[a][b] = 1]

\* FieldOps: in characteristic 2 subtraction is addition.
Add(a, b) == AddTable[a][b]

Sub(a, b) == AddTable[a][b]

Mul(a, b) == MulTable[a][b]

\* Field::invert: None for zero
invert(a) == [some |-> a # 0, value |-> InvTable[a]]

\* P::Scalar::from(i as u128)
Scalar_from(i) == i % FieldSize

(***************************************************************************)
(* The additive NTT of the Reed-Solomon code (binius_math, outside the     *)
(* repository's files): the evaluation domain is the binary subspace       *)
(* spanned by F::from(1), F::from(2), F::from(4), ..., and the twiddle of  *)
(* layer `layer` and block `block` is the normalised subspace polynomial   *)
(* W^_i, i = log_domain_size - 1 - layer, at the first point of the        *)
(* block's coset.                                                          *)
(***************************************************************************)
RECURSIVE subspace_poly_from(_, _, _)
subspace_poly_from(i, x, u) ==
    IF u = pow2(i) THEN 1 ELSE Mul(Add(x, u), subspace_poly_from(i, x, u + 1))

\* W_i(x): the product of (x - u) over the span of the first i basis elements
subspace_poly(i, x) == subspace_poly_from(i, x, 0)

NormalizedSubspacePoly ==
    [i \in 0..(FieldBits - 1) |->
        [x \in FieldElems |->
            Mul(subspace_poly(i, x), InvTable[subspace_poly(i, pow2(i))])]]

\* DomainContext::twiddle(layer, block) of a domain of 2^log_domain_size points
twiddle(log_domain_size, layer, block) ==
    LET i == log_domain_size - 1 - layer
    IN  NormalizedSubspacePoly[i][Scalar_from(block * pow2(i + 1))]

\* bit_reverse_packed: element at index i moves to the index with the
\* log_len low bits of i reversed
RECURSIVE reverse_bits(_, _)
reverse_bits(i, bits) ==
    IF bits = 0 THEN 0
    ELSE (i % 2) * pow2(bits - 1) + reverse_bits(i \div 2, bits - 1)

bit_reverse_packed(log_len, v) ==
    [i \in 1..Len(v) |-> v[reverse_bits(i - 1, log_len) + 1]]

\* the butterfly of the encoder's forward transform on the pair (u, v):
\* u += v * twiddle; v += u
forward_butterfly(u, v, t) ==
    LET u1 == Add(u, Mul(v, t)) IN <<u1, Add(v, u1)>>

\* the butterfly of decode_batch on the pair (u, v):
\* v += u; u += v * twiddle
butterfly(u, v, t) ==
    LET v1 == Add(v, u) IN <<Add(u, Mul(v1, t)), v1>>

\* One layer of butterflies over `code` (2^log_d scalars).  `fwd` selects the
\* forward butterfly (u += v * t; v += u) of the encoder; otherwise the
\* butterfly of decode_batch (v += u; u += v * t).
ntt_layer(log_d, code, layer, fwd) ==
    LET block_size_half == pow2(log_d - layer - 1)
        block_of(idx) == idx \div (2 * block_size_half)
        is_low(idx) == (idx \div block_size_half) % 2 = 0
        idx0_of(idx) == IF is_low(idx) THEN idx ELSE idx - block_size_half
        t(idx) == twiddle(log_d, layer, block_of(idx))
        u(idx) == code[idx0_of(idx) + 1]
        v(idx) == code[idx0_of(idx) + block_size_half + 1]
        pair(idx) ==
            IF fwd THEN forward_butterfly(u(idx), v(idx), t(idx))
            ELSE butterfly(u(idx), v(idx), t(idx))
    IN  [i \in 1..Len(code) |->
            IF is_low(i - 1) THEN pair(i - 1)[1] ELSE pair(i - 1)[2]]

(***************************************************************************)
(* frivail.rs: Reed-Solomon encoding and decoding.  fri_params is the      *)
(* record [log_dim, log_inv_rate, log_batch_size]; rs_code().log_len() is  *)
(* log_dim + log_inv_rate.                                                 *)
(***************************************************************************)
\* P::LOG_WIDTH for P = B128: one scalar per packed element
LOG_WIDTH == 0

rs_log_len(fp) == fp.log_dim + fp.log_inv_rate

RECURSIVE forward_layers(_, _, _, _)
forward_layers(log_d, code, layer, end) ==
    IF layer >= end THEN code
    ELSE forward_layers(log_d, ntt_layer(log_d, code, layer, TRUE), layer + 1, end)

\* ReedSolomonCode::encode_batch (binius_math): bit-reverse the message,
\* repeat it 2^log_inv_rate times, then run the forward transform skipping
\* the first log_inv_rate and the last log_batch_size layers.
encode_batch(fp, d) ==
    LET log_d == rs_log_len(fp) + fp.log_batch_size
        msg == bit_reverse_packed(fp.log_dim + fp.log_batch_size, d)
        repeated == [i \in 1..pow2(log_d) |-> msg[((i - 1) % Len(msg)) + 1]]
    IN  forward_layers(log_d, repeated, fp.log_inv_rate, log_d - fp.log_batch_size)

\* A plausible slip: the length computed without log_inv_rate and only that
\* many scalars of the encoded buffer copied.
encode_codeword_message_len(d, fp) ==
    [status |-> "ok",
     codeword |-> SubSeq(encode_batch(fp, d), 1,
                         pow2(fp.log_dim + fp.log_batch_size - LOG_WIDTH))]

encode_codeword(d, fp) ==
    [status |-> "ok", codeword |-> encode_batch(fp, d)]

\* A plausible slip: the two butterfly updates of decode_batch in the
\* encoder's order.
decode_layer_forward_order(log_d, code, layer) == ntt_layer(log_d, code, layer, TRUE)

\* decode_batch, one layer: for every block and every idx0 of the block,
\* v += u; u += v * twiddle
decode_layer(log_d, code, layer) == ntt_layer(log_d, code, layer, FALSE)

\* A plausible slip: the layers visited from the lowest up, as the encoder
\* visits them.
decode_layer_order_ascending(log_d, skip_early, skip_late) ==
    [k \in 1..(log_d - skip_late - skip_early) |-> skip_early + k - 1]

\* (skip_early..(log_d - skip_late)).rev(): the layers in the order visited
decode_layer_order(log_d, skip_early, skip_late) ==
    [k \in 1..(log_d - skip_late - skip_early) |-> log_d - skip_late - k]

\* for layer in (skip_early..(log_d - skip_late)).rev()
RECURSIVE decode_layers(_, _, _, _)
decode_layers(log_d, code, layers, k) ==
    IF k > Len(layers) THEN code
    ELSE decode_layers(log_d, decode_layer(log_d, code, layers[k]), layers, k + 1)

decode_batch(log_len, log_inv, log_batch_size, d, output_len) ==
    LET data_log_len == log_len + log_batch_size
        expected_data_len ==
            IF data_log_len >= LOG_WIDTH THEN pow2(data_log_len - LOG_WIDTH) ELSE 1
        output == [i \in 1..output_len |-> IF i <= Len(d) THEN d[i] ELSE 0]
        log_d == log_len + log_batch_size
        layers == decode_layer_order(log_d, log_inv, log_batch_size)
    IN  IF Len(d) # expected_data_len
        THEN [status |-> "err", output |-> <<>>, layers |-> <<>>]
        ELSE [status |-> "ok",
              output |-> decode_layers(log_d, output, layers, 1),
              layers |-> layers]

\* A plausible slip: decode_batch is handed the code's log dimension where
\* it expects the log length.
decode_codeword_log_dim(cw, fp) ==
    LET len == pow2(rs_log_len(fp) + fp.log_batch_size - LOG_WIDTH)
        r == decode_batch(fp.log_dim, fp.log_inv_rate, fp.log_batch_size, cw, len)
    IN  IF r.status = "err"
        THEN [status |-> "err", decoded |-> <<>>]
        ELSE [status |-> "ok", decoded |-> resize(r.output, pow2(fp.log_dim), 0)]

decode_codeword(cw, fp) ==
    LET len == pow2(rs_log_len(fp) + fp.log_batch_size - LOG_WIDTH)
        r == decode_batch(rs_log_len(fp), fp.log_inv_rate, fp.log_batch_size, cw, len)
        trim_len == pow2(fp.log_dim + fp.log_batch_size - LOG_WIDTH)
        trimmed == resize(r.output, trim_len, 0)
        data_log_len == fp.log_dim + fp.log_batch_size
    IN  IF r.status = "err"
        THEN [status |-> "err", decoded |-> <<>>]
        ELSE [status |-> "ok", decoded |-> bit_reverse_packed(data_log_len, trimmed)]

(***************************************************************************)
(* frivail.rs: erasure reconstruction.  known is a sequence of pairs       *)
(* <<x_j, y_j>>.  A call ends "ok", "err" or "panic" (an out-of-bounds     *)
(* index or an unwrap of None aborts the call).                            *)
(***************************************************************************)
\* l_j: the product over m # j of (x_e - x_m) * (x_j - x_m).invert().unwrap()
\* (the value for a difference that has an inverse; see interpolate_panics)
RECURSIVE lagrange_factor(_, _, _, _, _)
lagrange_factor(x_e, known, k, j, m) ==
    IF m > k THEN 1
    ELSE IF m = j THEN lagrange_factor(x_e, known, k, j, m + 1)
    ELSE Mul(Mul(Sub(x_e, known[m][1]), InvTable[Sub(known[j][1], known[m][1])]),
             lagrange_factor(x_e, known, k, j, m + 1))

RECURSIVE interpolate_from(_, _, _, _)
interpolate_from(x_e, known, k, j) ==
    IF j > k THEN 0
    ELSE Add(Mul(known[j][2], lagrange_factor(x_e, known, k, j, 1)),
             interpolate_from(x_e, known, k, j + 1))

interpolate_at_point(x_e, known, k) == interpolate_from(x_e, known, k, 1)

\* (x_j - x_m).invert().unwrap() aborts when two known points share their x
interpolate_panics(known, k) ==
    \E j \in 1..k : \E m \in 1..k :
        m # j /\ ~invert(Sub(known[j][1], known[m][1])).some

contains(list, i) == \E p \in 1..Len(list) : list[p] = i

RECURSIVE filter_known(_, _, _)
filter_known(cw, corrupted_indices, i) ==
    IF i >= Len(cw) THEN <<>>
    ELSE IF contains(corrupted_indices, i)
         THEN filter_known(cw, corrupted_indices, i + 1)
         ELSE <<(<<Scalar_from(i), cw[i + 1]>>)>> \o filter_known(cw, corrupted_indices, i + 1)

\* A plausible slip: the known points gathered once per listed index (the
\* positions other than that index), so that a position is gathered again
\* for every further index of the list.
RECURSIVE known_points_per_index(_, _)
known_points_per_index(cw, corrupted_indices) ==
    IF Len(corrupted_indices) = 0 THEN <<>>
    ELSE filter_known(cw, <<Head(corrupted_indices)>>, 0)
             \o known_points_per_index(cw, Tail(corrupted_indices))

\* A plausible slip: the known points gathered from every position, the
\* erased ones included.
known_points_all(cw, corrupted_indices) == filter_known(cw, <<>>, 0)

\* (0..n).filter(|i| !corrupted_indices.contains(i)).map(|i| (domain[i], codeword[i]))
known_points(cw, corrupted_indices) == filter_known(cw, corrupted_indices, 0)

\* The value interpolate_at_point(domain[missing], &known, k) of each listed
\* index, in list order (known is fixed before the first write, so the value
\* of an index does not depend on the writes before it); an index past the
\* end has no value.
RECURSIVE interpolated_values(_, _, _, _)
interpolated_values(cw, corrupted_indices, known, pos) ==
    IF pos > Len(corrupted_indices) THEN <<>>
    ELSE LET missing == corrupted_indices[pos] IN
         << IF missing >= Len(cw) THEN 0
            ELSE interpolate_at_point(Scalar_from(missing), known, Len(known)) >>
         \o interpolated_values(cw, corrupted_indices, known, pos + 1)

\* A plausible slip: the value written one cell further (a 1-based index
\* into the 0-based slice, wrapping at the end).
RECURSIVE reconstruct_loop_shifted(_, _, _, _, _)
reconstruct_loop_shifted(cw, corrupted_indices, pos, vals, unwrap_fails) ==
    IF pos > Len(corrupted_indices) THEN [status |-> "ok", codeword |-> cw]
    ELSE LET missing == corrupted_indices[pos] IN
         IF missing >= Len(cw) \/ unwrap_fails
         THEN [status |-> "panic", codeword |-> cw]
         ELSE reconstruct_loop_shifted(
                  [cw EXCEPT ![((missing + 1) % Len(cw)) + 1] = vals[pos]],
                  corrupted_indices, pos + 1, vals, unwrap_fails)

\* The sequential loop: each erased index in turn is interpolated and
\* written; domain[missing] aborts for missing >= n and the unwrap inside
\* interpolate_at_point aborts when `unwrap_fails`.
RECURSIVE reconstruct_loop(_, _, _, _, _)
reconstruct_loop(cw, corrupted_indices, pos, vals, unwrap_fails) ==
    IF pos > Len(corrupted_indices) THEN [status |-> "ok", codeword |-> cw]
    ELSE LET missing == corrupted_indices[pos] IN
         IF missing >= Len(cw) \/ unwrap_fails
         THEN [status |-> "panic", codeword |-> cw]
         ELSE reconstruct_loop([cw EXCEPT ![missing + 1] = vals[pos]],
                               corrupted_indices, pos + 1, vals, unwrap_fails)

\* The parallel variant: every value is computed first (an abort in any
\* worker aborts the call before a write), then written in list order.
reconstruct_par(cw, corrupted_indices, vals, unwrap_fails) ==
    IF unwrap_fails
       \/ \E p \in 1..Len(corrupted_indices) : corrupted_indices[p] >= Len(cw)
    THEN [status |-> "panic", codeword |-> cw]
    ELSE reconstruct_loop(cw, corrupted_indices, 1, vals, FALSE)

\* reconstruct_codeword_naive: the outcome of the call in the build with the
\* feature "parallel" (at TRUE) and in the build without it (at FALSE).
reconstruct_codeword_naive(cw, corrupted_indices) ==
    LET known == known_points(cw, corrupted_indices)
        k == Len(known)
        vals == interpolated_values(cw, corrupted_indices, known, 1)
        unwrap_fails == interpolate_panics(known, k)
    IN  [par \in BOOLEAN |->
            IF Len(corrupted_indices) = 0 THEN [status |-> "ok", codeword |-> cw]
            ELSE IF k = 0 THEN [status |-> "err", codeword |-> cw]
            ELSE IF par
                 THEN reconstruct_par(cw, corrupted_indices, vals, unwrap_fails)
                 ELSE reconstruct_loop(cw, corrupted_indices, 1, vals, unwrap_fails)]

(***************************************************************************)
(* The Merkle tree of the commitment (binius BinaryMerkleTreeScheme /      *)
(* BinaryMerkleTreeProver, outside the repository's files).  A digest is   *)
(* a term: the hash of a leaf or the compression of two digests; two       *)
(* digests are equal only when they are the same term (the hash has no     *)
(* collisions).  The tree over 2^log_len leaves is the sequence of its     *)
(* levels, root level first.                                               *)
(***************************************************************************)
hash_leaf(leaf_values) == <<"leaf", leaf_values>>

compress(left, right) == <<"node", left, right>>

parent_level(level) ==
    [i \in 1..(Len(level) \div 2) |-> compress(level[2 * i - 1], level[2 * i])]

RECURSIVE merkle_levels(_)
merkle_levels(levels) ==
    IF Len(levels[1]) <= 1 THEN levels
    ELSE merkle_levels(<<parent_level(levels[1])>> \o levels)

\* MerkleTreeProver::commit over leaves of 2^log_batch_size = 1 scalar each
merkle_commit(cw) ==
    LET levels == merkle_levels(<< [i \in 1..Len(cw) |-> hash_leaf(<<cw[i]>>)] >>)
    IN  [log_len |-> Len(levels) - 1, levels |-> levels, root |-> levels[1][1]]

\* the sibling of the node on the path of leaf `index` at depth d
sibling_at(committed, index, d) ==
    LET node == index \div pow2(committed.log_len - d)
        sib == IF node % 2 = 0 THEN node + 1 ELSE node - 1
    IN  committed.levels[d + 1][sib + 1]

\* MerkleTreeProver::prove_opening(committed, 0, index, writer): the siblings
\* of the path, leaf level first; an index past the last leaf is an error
prove_opening(committed, index) ==
    IF index >= pow2(committed.log_len) THEN [status |-> "err", digests |-> <<>>]
    ELSE [status |-> "ok",
          digests |-> [k \in 1..committed.log_len |->
                          sibling_at(committed, index, committed.log_len - k + 1)]]

\* a digest as a message of a transcript, and the digest a reader takes
\* from a message: the digest written, or the leading bytes of another
\* message, which are no digest of the tree
digest_message(digest) == [kind |-> "digest", value |-> digest]

read_digest(message) ==
    IF message.kind = "digest" THEN message.value ELSE <<"bytes", message.kind>>

\* the digests of an opening written to a transcript, one message each
write_digests(digests) == [k \in DOMAIN digests |-> digest_message(digests[k])]

RECURSIVE fold_path(_, _, _, _)
fold_path(cur, index, digests, k) ==
    IF k > Len(digests) THEN cur
    ELSE fold_path(IF (index \div pow2(k - 1)) % 2 = 0
                   THEN compress(cur, digests[k])
                   ELSE compress(digests[k], cur),
                   index, digests, k + 1)

\* MerkleTreeScheme::verify_opening(index, values, 0, tree_depth, [root], reader):
\* reads tree_depth digests and recomputes the root from the leaf
verify_opening(index, leaf_values, tree_depth, root, transcript) ==
    LET avail == Len(transcript.bytes) - transcript.pos
        path == [k \in 1..tree_depth |->
                    read_digest(transcript.bytes[transcript.pos + k])]
    IN  IF index >= pow2(tree_depth) \/ avail < tree_depth THEN "err"
        ELSE IF fold_path(hash_leaf(leaf_values), index, path, 1) = root THEN "ok"
        ELSE "err"

(***************************************************************************)
(* Transcripts.  The bytes of a transcript are modelled as the sequence of *)
(* the messages written; a verifier transcript is the bytes and the number *)
(* of messages already read.                                               *)
(***************************************************************************)
\* VerifierTranscript::new(StdChallenger::default(), bytes)
reconstruct_transcript_from_bytes(bytes) == [bytes |-> bytes, pos |-> 0]

\* transcript.message().read(): the next message, or an error at the end
transcript_read(transcript) ==
    IF transcript.pos < Len(transcript.bytes)
    THEN [status |-> "ok",
          value |-> transcript.bytes[transcript.pos + 1],
          transcript |-> [transcript EXCEPT !.pos = @ + 1]]
    ELSE [status |-> "err", value |-> <<>>, transcript |-> transcript]

(***************************************************************************)
(* frivail.rs: the evaluation claim.                                       *)
(***************************************************************************)
\* eq_ind_partial_eval(point)[x]: the product over the coordinates i of
\* point[i] when bit i of x is set and of 1 - point[i] otherwise
RECURSIVE eq_ind(_, _, _)
eq_ind(point, x, i) ==
    IF i > Len(point) THEN 1
    ELSE Mul(IF (x \div pow2(i - 1)) % 2 = 1 THEN point[i] ELSE Sub(1, point[i]),
             eq_ind(point, x, i + 1))

eq_ind_partial_eval(point) == [x \in 1..pow2(Len(point)) |-> eq_ind(point, x - 1, 1)]

\* inner_product: the sum of the products of the zipped entries
RECURSIVE inner_product(_, _, _)
inner_product(a, b, i) ==
    IF i > Len(a) \/ i > Len(b) THEN 0
    ELSE Add(Mul(a[i], b[i]), inner_product(a, b, i + 1))

\* A plausible slip: the coordinates of the point taken in the opposite
\* order (the first coordinate paired with the highest index bit).
calculate_evaluation_claim_big_endian(vals, evaluation_point) ==
    LET n == Len(evaluation_point)
        reversed == [i \in 1..n |-> evaluation_point[n + 1 - i]]
    IN  [status |-> "ok",
         value |-> inner_product(vals, eq_ind_partial_eval(reversed), 1)]

calculate_evaluation_claim(vals, evaluation_point) ==
    [status |-> "ok",
     value |-> inner_product(vals, eq_ind_partial_eval(evaluation_point), 1)]

(***************************************************************************)
(* The polynomial commitment scheme behind commit / prove / verify         *)
(* (binius PCSProver, spartan_verify and the FRI query prover / verifier,  *)
(* outside the repository's files), as an ideal scheme: the proof written  *)
(* by prove_with_openings is a term that names the Merkle root, the point  *)
(* and the value it was made for, and spartan_verify accepts exactly the   *)
(* proofs of true statements about the committed polynomial.               *)
(***************************************************************************)
Some(x) == [some |-> TRUE, value |-> x]

NoneOption == [some |-> FALSE]

\* PCSProver::commit: encode the MLE and commit to the codeword
pcs_commit(fp, packed_mle) ==
    IF Len(packed_mle) # pow2(fp.log_dim + fp.log_batch_size)
    THEN [status |-> "err"]
    ELSE LET cw == encode_batch(fp, packed_mle)
             committed == merkle_commit(cw)
         IN  [status |-> "ok",
              commitment |-> committed.root,
              committed |-> committed,
              codeword |-> cw]

\* the number of FRI fold rounds that commit to a folded codeword
\* (ConstantArityStrategy: `arity` variables folded per round)
n_fold_rounds(fp) == IF fp.arity = 0 THEN 0 ELSE fp.log_dim \div fp.arity

round_commitment(root, point, k) == <<"round", root, point, k>>

round_commitments(fp, root, point) ==
    [k \in 1..n_fold_rounds(fp) |-> round_commitment(root, point, k)]

\* the codeword left after the last fold: the encoding of the constant claim
terminal_codeword(fp, claim) == [i \in 1..pow2(fp.log_inv_rate) |-> claim]

\* vcs_optimal_layers_depths_iter: one depth per committed oracle
vcs_optimal_layers_depths_iter(fp) ==
    [k \in 1..(1 + n_fold_rounds(fp)) |->
        LET tree == rs_log_len(fp) - (k - 1) * fp.arity
            q == ilog2(next_power_of_two(fp.n_test_queries))
        IN  IF q < tree THEN q ELSE tree]

\* the digests of one level of a committed tree, as a term
layer_of(commitment, depth) == <<"layer", commitment, depth>>

\* FRIQueryProver::vcs_optimal_layers
vcs_optimal_layers(query_prover) ==
    LET commitments == <<query_prover.root>> \o query_prover.rounds
        depths == vcs_optimal_layers_depths_iter(query_prover.params)
    IN  [k \in 1..Len(commitments) |-> layer_of(commitments[k], depths[k])]

\* MerkleTreeScheme::verify_layer
verify_layer(commitment, layer_depth, layer) ==
    IF layer = layer_of(commitment, layer_depth) THEN "ok" ELSE "err"

\* PCSProver::prove_with_openings: appends the evaluation proof to the
\* transcript and returns the terminal codeword and the query prover
prove_with_openings(fp, cw, committed, packed_mle, evaluation_point, claim, bytes) ==
    IF \/ Len(evaluation_point) # fp.log_dim + fp.log_batch_size
       \/ Len(packed_mle) # pow2(fp.log_dim + fp.log_batch_size)
    THEN [status |-> "err"]
    ELSE LET rounds == round_commitments(fp, committed.root, evaluation_point)
             proof == [kind |-> "pcs",
                       root |-> committed.root,
                       point |-> evaluation_point,
                       claim |-> claim,
                       rounds |-> rounds,
                       terminal |-> terminal_codeword(fp, claim),
                       valid |-> /\ cw = encode_batch(fp, packed_mle)
                                 /\ claim = inner_product(
                                        packed_mle, eq_ind_partial_eval(evaluation_point), 1)]
         IN  [status |-> "ok",
              terminate_codeword |-> terminal_codeword(fp, claim),
              query_prover |-> [root |-> committed.root, rounds |-> rounds, params |-> fp],
              transcript_bytes |-> Append(bytes, proof)]

\* spartan_verify: reads the evaluation proof and checks it against the
\* claim, the point and the commitment
spartan_verify(transcript, evaluation_claim, eval_point, commitment, fp) ==
    LET rd == transcript_read(transcript) IN
    IF rd.status = "err" THEN [status |-> "err", transcript |-> rd.transcript]
    ELSE IF /\ rd.value.kind = "pcs"
            /\ commitment.kind = "digest"
            /\ rd.value.valid
            /\ rd.value.root = commitment.value
            /\ rd.value.point = eval_point
            /\ rd.value.claim = evaluation_claim
         THEN [status |-> "ok",
               transcript |-> rd.transcript,
               verifier |-> [codeword_commitment |-> commitment.value,
                             round_commitments |-> rd.value.rounds,
                             terminal |-> rd.value.terminal,
                             params |-> fp]]
         ELSE [status |-> "err", transcript |-> rd.transcript]

\* FRIQueryProver::prove_query(index, advice)
prove_query(query_prover, index) ==
    IF index >= pow2(rs_log_len(query_prover.params))
    THEN [status |-> "err"]
    ELSE [status |-> "ok",
          bytes |-> << [kind |-> "query", root |-> query_prover.root, index |-> index] >>]

\* FRIVerifier::verify_query(idx, ntt, codeword, layers, advice): the query
\* is checked against the layers handed in, paired with the depths
verify_query(verifier, idx, terminate_codeword, layers, advice) ==
    LET rd == transcript_read(advice)
        commitments == <<verifier.codeword_commitment>> \o verifier.round_commitments
        depths == vcs_optimal_layers_depths_iter(verifier.params)
    IN  IF /\ rd.status = "ok"
           /\ rd.value.kind = "query"
           /\ rd.value.root = verifier.codeword_commitment
           /\ rd.value.index = idx
           /\ idx < pow2(rs_log_len(verifier.params))
           /\ terminate_codeword = verifier.terminal
           /\ \A k \in 1..Len(commitments) :
                  k <= Len(layers) => layers[k] = layer_of(commitments[k], depths[k])
        THEN "ok"
        ELSE "err"

(***************************************************************************)
(* frivail.rs: commit, prove, verify, inclusion_proof, open and            *)
(* verify_inclusion_proof.                                                 *)
(***************************************************************************)
commit(packed_mle, fp) == pcs_commit(fp, packed_mle)

\* A plausible slip: the commitment is written after the evaluation proof.
prove_commitment_last(packed_mle, fp, commit_out, evaluation_point) ==
    LET claim == inner_product(packed_mle, eq_ind_partial_eval(evaluation_point), 1)
        proved == prove_with_openings(fp, commit_out.codeword, commit_out.committed,
                                      packed_mle, evaluation_point, claim, <<>>)
    IN  IF proved.status = "err" THEN proved
        ELSE [proved EXCEPT !.transcript_bytes =
                  Append(@, digest_message(commit_out.commitment))]

\* A plausible slip: the commitment is not written to the transcript.
prove_without_commitment(packed_mle, fp, commit_out, evaluation_point) ==
    LET claim == inner_product(packed_mle, eq_ind_partial_eval(evaluation_point), 1)
    IN  prove_with_openings(fp, commit_out.codeword, commit_out.committed,
                            packed_mle, evaluation_point, claim, <<>>)

prove(packed_mle, fp, commit_out, evaluation_point) ==
    LET prover_transcript == << digest_message(commit_out.commitment) >>
        eval_point_eq == eq_ind_partial_eval(evaluation_point)
        evaluation_claim == inner_product(packed_mle, eval_point_eq, 1)
    IN  prove_with_openings(fp, commit_out.codeword, commit_out.committed,
                            packed_mle, evaluation_point, evaluation_claim,
                            prover_transcript)

\* for (commitment, layer_depth, layer) in izip!(...) { verify_layer(...)? }
RECURSIVE verify_layers(_, _, _, _)
verify_layers(commitments, depths, layers, i) ==
    IF i > Len(commitments) \/ i > Len(depths) \/ i > Len(layers)
    THEN [status |-> "ok", checked |-> i - 1]
    ELSE IF verify_layer(commitments[i], depths[i], layers[i]) = "err"
    THEN [status |-> "err", checked |-> i - 1]
    ELSE verify_layers(commitments, depths, layers, i + 1)

\* the extra query check of verify, run when all four options are Some
extra_query_check(verifier, idx, cw, layers, extra_transcript) ==
    LET looped == verify_layers(
                      <<verifier.codeword_commitment>> \o verifier.round_commitments,
                      vcs_optimal_layers_depths_iter(verifier.params), layers, 1)
    IN  IF looped.status = "err" THEN looped
        ELSE [status |-> verify_query(verifier, idx, cw, layers, extra_transcript),
              checked |-> looped.checked]

\* the result of a verify call: the status, the transcript after the call
\* and, for the record, the result of the main check (spartan_verify),
\* whether the cross-check of the extra query was entered, the number of
\* commitments of the proof and the number of them whose layer was checked
\* by verify_layer
VerifyResult(status, transcript, main, cross_checked, commitments, checked) ==
    [status |-> status, transcript |-> transcript, main |-> main,
     cross_checked |-> cross_checked,
     commitments |-> commitments, checked |-> checked]

\* A plausible slip: the terminal codeword is not among the arguments the
\* cross-check waits for.
verify_without_terminate_codeword(transcript, evaluation_claim, evaluation_point, fp, extra_index, terminate_codeword, layers, extra_transcript) ==
    LET rd == transcript_read(transcript)
        n_packed_vars == fp.log_dim + fp.log_batch_size
    IN  IF rd.status = "err" THEN VerifyResult("err", rd.transcript, "none", FALSE, 0, 0)
        ELSE IF n_packed_vars > Len(evaluation_point)
        THEN VerifyResult("panic", rd.transcript, "none", FALSE, 0, 0)
        ELSE LET eval_point == SubSeq(evaluation_point, 1, n_packed_vars)
                 sv == spartan_verify(rd.transcript, evaluation_claim, eval_point,
                                      rd.value, fp)
             IN  IF sv.status = "err"
                 THEN VerifyResult("err", sv.transcript, "err", FALSE, 0, 0)
                 ELSE LET commitments == 1 + Len(sv.verifier.round_commitments) IN
                      IF extra_index.some /\ layers.some /\ extra_transcript.some
                      THEN LET extra == extra_query_check(
                                            sv.verifier, extra_index.value,
                                            IF terminate_codeword.some
                                            THEN terminate_codeword.value ELSE <<>>,
                                            layers.value, extra_transcript.value)
                           IN  VerifyResult(extra.status, sv.transcript, "ok", TRUE,
                                            commitments, extra.checked)
                      ELSE VerifyResult("ok", sv.transcript, "ok", FALSE, commitments, 0)

\* A plausible slip: the result of spartan_verify is dropped.
verify_unchecked(transcript, evaluation_claim, evaluation_point, fp, extra_index, terminate_codeword, layers, extra_transcript) ==
    LET rd == transcript_read(transcript) IN
    VerifyResult(IF rd.status = "err" THEN "err" ELSE "ok", rd.transcript,
                 "none", FALSE, 0, 0)

verify(transcript, evaluation_claim, evaluation_point, fp, extra_index, terminate_codeword, layers, extra_transcript) ==
    LET rd == transcript_read(transcript)
        n_packed_vars == fp.log_dim + fp.log_batch_size
    IN  IF rd.status = "err" THEN VerifyResult("err", rd.transcript, "none", FALSE, 0, 0)
        ELSE IF n_packed_vars > Len(evaluation_point)
        THEN VerifyResult("panic", rd.transcript, "none", FALSE, 0, 0)
        ELSE LET eval_point == SubSeq(evaluation_point, 1, n_packed_vars)
                 sv == spartan_verify(rd.transcript, evaluation_claim, eval_point,
                                      rd.value, fp)
             IN  IF sv.status = "err"
                 THEN VerifyResult("err", sv.transcript, "err", FALSE, 0, 0)
                 ELSE LET commitments == 1 + Len(sv.verifier.round_commitments) IN
                      IF /\ extra_index.some /\ terminate_codeword.some
                         /\ layers.some /\ extra_transcript.some
                      THEN LET extra == extra_query_check(
                                            sv.verifier, extra_index.value,
                                            terminate_codeword.value, layers.value,
                                            extra_transcript.value)
                           IN  VerifyResult(extra.status, sv.transcript, "ok", TRUE,
                                            commitments, extra.checked)
                      ELSE VerifyResult("ok", sv.transcript, "ok", FALSE, commitments, 0)

\* A plausible slip: the opening made for the position after the one asked.
inclusion_proof_next_index(committed, index) ==
    LET opening == prove_opening(committed, (index + 1) % pow2(committed.log_len))
    IN  IF opening.status = "err" THEN [status |-> "err"]
        ELSE [status |-> "ok",
              transcript |-> reconstruct_transcript_from_bytes(
                                write_digests(opening.digests))]


inclusion_proof(committed, index) ==
    LET opening == prove_opening(committed, index)
    IN  IF opening.status = "err" THEN [status |-> "err"]
        ELSE [status |-> "ok",
              transcript |-> reconstruct_transcript_from_bytes(
                                write_digests(opening.digests))]

open(index, query_prover) ==
    LET q == prove_query(query_prover, index)
    IN  IF q.status = "err" THEN [status |-> "err"]
        ELSE [status |-> "ok", transcript |-> reconstruct_transcript_from_bytes(q.bytes)]

\* A plausible slip: the tree depth taken from the message length
\* (log_dim) instead of the codeword length.
verify_inclusion_proof_log_dim(transcript, leaf, index, fp, commitment) ==
    verify_opening(index, leaf, fp.log_dim, commitment, transcript)

\* A plausible slip: the opening is checked against the leaf the proof
\* reader carries, not against `data`.
verify_inclusion_proof_any_data(transcript, leaf, index, fp, commitment) ==
    IF index >= pow2(rs_log_len(fp)) \/ Len(transcript.bytes) - transcript.pos < rs_log_len(fp)
    THEN "err" ELSE "ok"

\* A plausible slip: the depth of a tree over the message.
tree_depth_log_dim(fp) == fp.log_dim

\* let tree_depth = fri_params.rs_code().log_len()
tree_depth(fp) == rs_log_len(fp)

verify_inclusion_proof(transcript, leaf, index, fp, commitment) ==
    verify_opening(index, leaf, tree_depth(fp), commitment, transcript)

\* MerkleTreeScheme::verify_opening seen from the reader: the transcript
\* after the call.  An index outside the tree is refused before any read;
\* otherwise the digests of the path are read; when fewer are left the read
\* fails at a position the library leaves open
verify_opening_reader(index, depth, transcript) ==
    LET avail == Len(transcript.bytes) - transcript.pos
    IN  IF index >= pow2(depth) THEN { transcript }
        ELSE IF avail < depth
        THEN { [transcript EXCEPT !.pos = p] : p \in transcript.pos..Len(transcript.bytes) }
        ELSE { [transcript EXCEPT !.pos = @ + depth] }

\* verify_inclusion_proof on a transcript object (&mut): the status and
\* the transcripts the object may be after the call
verify_inclusion_proof_reader(transcript, index, fp) ==
    verify_opening_reader(index, tree_depth(fp), transcript)

\* A plausible slip: the commitment is read from a clone of the transcript.
extract_commitment_from_clone(transcript) ==
    [transcript_read(transcript) EXCEPT !.transcript = transcript]

\* verifier_transcript.message().read()
extract_commitment(transcript) == transcript_read(transcript)

\* A plausible slip: the bytes are read from the transcript itself, not
\* from a clone.
get_transcript_bytes_in_place(transcript) ==
    [bytes |-> SubSeq(transcript.bytes, transcript.pos + 1, Len(transcript.bytes)),
     transcript |-> [transcript EXCEPT !.pos = Len(transcript.bytes)]]

\* get_transcript_bytes: the remaining bytes of a clone of the transcript;
\* the transcript handed in (a shared reference) is as before
get_transcript_bytes(transcript) ==
    LET cloned == transcript
        remaining == Len(cloned.bytes) - cloned.pos
    IN  [bytes |-> IF remaining = 0 THEN <<>>
                   ELSE SubSeq(cloned.bytes, cloned.pos + 1, Len(cloned.bytes)),
         transcript |-> transcript]

(***************************************************************************)
(* Inputs of the embedder: byte strings of every length up to MaxDataLen,  *)
(* filled by the tests' pattern (i mod 256) and two other patterns.        *)
(***************************************************************************)
BytePatterns == { <<1, 0>>, <<0, 255>>, <<7, 3>> }

create_test_data(size_bytes, pat) ==
    [i \in 1..size_bytes |-> (pat[1] * (i - 1) + pat[2]) % 256]

DataInputs ==
    { create_test_data(n, pat) : n \in 0..MaxDataLen, pat \in BytePatterns }

CallBytesToPackedMle ==
    /\ packed.status = "none"
    /\ packed' = bytes_to_packed_mle(data)
    /\ UNCHANGED data

(***************************************************************************)
(* frivail.rs: the instance and its FRI context.                           *)
(***************************************************************************)
new(log_inv_rate, num_test_queries, arity, n_vars, log_num_shares) ==
    [log_inv_rate |-> log_inv_rate,
     num_test_queries |-> num_test_queries,
     arity |-> arity,
     n_vars |-> n_vars,
     log_num_shares |-> log_num_shares]

\* FRIParams::with_strategy(ntt, scheme, packed_buffer_log_len, Some(0),
\* self.log_inv_rate, self.num_test_queries, ConstantArityStrategy(arity))
with_strategy(log_msg_len, log_batch_size, log_inv_rate, n_test_queries, arity) ==
    [status |-> "ok",
     value |-> [log_dim |-> log_msg_len - log_batch_size,
                log_batch_size |-> log_batch_size,
                log_inv_rate |-> log_inv_rate,
                n_test_queries |-> n_test_queries,
                arity |-> arity]]

\* A plausible slip: the rate and the number of queries handed to
\* with_strategy in each other's place, and the instance's n_vars used for
\* the message length.
initialize_fri_context_swapped(self, packed_buffer_log_len) ==
    with_strategy(self.n_vars, 0, self.num_test_queries, self.log_inv_rate, self.arity)

\* the NTT is built with self.log_num_shares and the parameters with the
\* instance's rate, queries and arity; the only error is with_strategy's
initialize_fri_context(self, packed_buffer_log_len) ==
    with_strategy(packed_buffer_log_len, 0, self.log_inv_rate,
                  self.num_test_queries, self.arity)

\* StdRng::from_seed: a generator is its seed and its position in the stream
StdRng_from_seed(seed) == [seed |-> seed, pos |-> 0]

\* <B128 as Random>::random: the next scalar of the stream and the generator
\* after it (the stream is a fixed function of seed and position)
random(rng) ==
    [value |-> ((rng.seed + 1) * 5 + rng.pos * 7 + 3) % FieldSize,
     rng |-> [rng EXCEPT !.pos = @ + 1]]

RECURSIVE random_scalars(_, _)
random_scalars(rng, n) ==
    IF n = 0 THEN <<>>
    ELSE LET drawn == random(rng) IN <<drawn.value>> \o random_scalars(drawn.rng, n - 1)

\* A plausible slip: the generator is seeded from entropy that differs from
\* call to call instead of the fixed seed.
calculate_evaluation_point_random_entropy(self) ==
    [status |-> "ok",
     value |-> random_scalars(StdRng_from_seed(Len(random_points)), self.n_vars)]

calculate_evaluation_point_random(self) ==
    [status |-> "ok",
     value |-> random_scalars(StdRng_from_seed(0), self.n_vars)]

(***************************************************************************)
(* The coding utilities as a state machine: a vector is encoded; the       *)
(* codeword is decoded, or some of its positions are overwritten and       *)
(* reconstruct_codeword_naive is called with a list of erased indices.     *)
(***************************************************************************)
MsgSeeds == { <<1, 0>>, <<3, 5>>, <<7, 2>> }

Messages(dim) ==
    { [j \in 1..dim |-> Add(Mul(seed[1], Scalar_from(j)), seed[2])] : seed \in MsgSeeds }

CodeConfigs ==
    { <<ld, lir>> \in (0..MaxLogLen) \X (0..MaxLogLen) : ld + lir <= MaxLogLen }

\* The lists of erased indices handed to reconstruct_codeword_naive for a
\* codeword of n scalars: every increasing list of at most MaxErased
\* positions, and each shorter one followed by a repeat of one of its
\* indices or by n (an index past the end of the codeword).
RECURSIVE IncreasingLists(_, _)
IncreasingLists(n, len) ==
    IF len = 0 THEN { <<>> }
    ELSE LET shorter == IncreasingLists(n, len - 1)
         IN  shorter \cup
             UNION { { Append(l, x) : x \in (IF l = <<>> THEN 0 ELSE l[Len(l)] + 1)..(n - 1) } :
                     l \in { q \in shorter : Len(q) = len - 1 } }

ErasedLists(n) ==
    LET inc == IncreasingLists(n, MaxErased)
        short == { l \in inc : Len(l) < MaxErased }
    IN  inc \cup { Append(l, n) : l \in short }
            \cup UNION { { Append(l, l[p]) : p \in 1..Len(l) } : l \in short }

corrupt(cw, idxs) ==
    [i \in 1..Len(cw) |-> IF contains(idxs, i - 1) THEN 0 ELSE cw[i]]

None == [status |-> "none"]

\* The embedder before any input is given.
IdleMle ==
    /\ data = <<>>
    /\ packed = None

\* The coding utilities before any call.
IdleCode ==
    /\ fri_params = initialize_fri_context(new(0, 0, 0, 0, 0), 0).value
    /\ msg_values = <<>>
    /\ codeword = None
    /\ corrupted = <<>>
    /\ erased = <<>>
    /\ recon = None
    /\ decoded = None

StartMle ==
    /\ data \in DataInputs
    /\ packed = None

StartCode ==
    /\ \E cfg \in CodeConfigs :
          /\ fri_params = initialize_fri_context(new(cfg[2], 3, 2, cfg[1], 2), cfg[1]).value
          /\ msg_values \in Messages(pow2(cfg[1]))
    /\ codeword = None
    /\ corrupted = <<>>
    /\ erased = <<>>
    /\ recon = None
    /\ decoded = None

EncodeCodeword ==
    /\ codeword.status = "none"
    /\ codeword' = encode_codeword(msg_values, fri_params)
    /\ UNCHANGED <<fri_params, msg_values, corrupted, erased, recon, decoded>>

\* the slices handed to decode_codeword for a codeword cw: cw itself, its
\* first 2^log_dim scalars, cw without its last scalar, cw with one more
\* scalar, the empty slice, and cw with its first or its last scalar
\* changed (a vector of the codeword's length that is not a codeword)
DecoderInputs(cw, fp) ==
    { cw, SubSeq(cw, 1, pow2(fp.log_dim)), SubSeq(cw, 1, Len(cw) - 1),
      Append(cw, 0), <<>>,
      [cw EXCEPT ![1] = Add(@, 1)], [cw EXCEPT ![Len(cw)] = Add(@, 3)] }

DecodeCodeword ==
    /\ codeword.status = "ok"
    /\ decoded.status = "none"
    /\ recon.status = "none"
    /\ \E input \in DecoderInputs(codeword.codeword, fri_params) :
          decoded' =
              [input |-> input,
               decode_batch |->
                   decode_batch(rs_log_len(fri_params), fri_params.log_inv_rate,
                                fri_params.log_batch_size, input,
                                pow2(rs_log_len(fri_params) + fri_params.log_batch_size
                                     - LOG_WIDTH))]
              @@ decode_codeword(input, fri_params)
    /\ UNCHANGED <<fri_params, msg_values, codeword, corrupted, erased, recon>>

ReconstructCodewordNaive ==
    /\ codeword.status = "ok"
    /\ recon.status = "none"
    /\ decoded.status = "none"
    /\ \E idxs \in ErasedLists(Len(codeword.codeword)) :
          \E outcome \in { reconstruct_codeword_naive(corrupt(codeword.codeword, idxs), idxs) } :
              /\ erased' = idxs
              /\ corrupted' = corrupt(codeword.codeword, idxs)
              /\ \E par \in BOOLEAN : recon' = outcome[par]
    /\ UNCHANGED <<fri_params, msg_values, codeword, decoded>>

(***************************************************************************)
(* One commit / prove / verify session with inclusion proofs: the MLE      *)
(* msg_values is committed under fri_params, the evaluation at             *)
(* evaluation_point is proved, an extra query is opened, the proof is      *)
(* verified from the transcript bytes, and a codeword position is opened   *)
(* and checked against the commitment.                                     *)
(***************************************************************************)
PointSeeds == { <<0, 1>>, <<3, 6>> }

Points(n) ==
    { [i \in 1..n |-> Add(Mul(seed[1], Scalar_from(i)), seed[2])] : seed \in PointSeeds }

SessionSeeds == { <<1, 0>>, <<3, 5>> }

SessionMessages(dim) ==
    { [j \in 1..dim |-> Add(Mul(seed[1], Scalar_from(j)), seed[2])] : seed \in SessionSeeds }

\* the claims handed to verify: every scalar
ClaimChoices == FieldElems

\* the evaluation points handed to verify: the proved one, the proved one
\* without its last coordinate, with one more coordinate, and with its first
\* coordinate changed
VerifierPoints(point) ==
    { point, Append(point, 1) }
        \cup (IF Len(point) = 0 THEN {}
              ELSE { SubSeq(point, 1, Len(point) - 1),
                     [point EXCEPT ![1] = Add(@, 1)] })

\* the values handed to verify_inclusion_proof for a position holding v:
\* v itself and v with its lowest or its highest bit flipped
ValueChoices(v) == { v, Add(v, 1), Add(v, pow2(FieldBits - 1)) }

NoExtra ==
    [extra_index |-> NoneOption, terminate_codeword |-> NoneOption,
     layers |-> NoneOption, extra_transcript |-> NoneOption]

\* the optional arguments of verify as the tests build them: the opened
\* index, the terminal codeword, the query prover's layers, open's transcript
FullExtra(prove_result, query) ==
    [extra_index |-> Some(query.index),
     terminate_codeword |-> Some(prove_result.terminate_codeword),
     layers |-> Some(vcs_optimal_layers(prove_result.query_prover)),
     extra_transcript |-> Some(query.transcript)]

\* the optional arguments handed to verify: the tests' four arguments, the
\* same with any of them left out, with the layers list cut short or
\* extended by one more layer, and with a first layer of another tree,
\* alone or with one of the other three arguments left out
ExtraChoices(prove_result, query) ==
    LET full == FullExtra(prove_result, query)
        layers == full.layers.value
        other == layer_of(<<"leaf", <<0>>>>, 0)
        wrong == [full EXCEPT !.layers = Some(<<other>> \o Tail(layers))]
    IN  { [f \in DOMAIN full |-> IF f \in supplied THEN full[f] ELSE NoneOption] :
             supplied \in SUBSET (DOMAIN full) }
        \cup { [full EXCEPT !.layers = Some(SubSeq(layers, 1, k))] :
                  k \in 0..(Len(layers) - 1) }
        \cup { [full EXCEPT !.layers = Some(Append(layers, other))], wrong }
        \cup { [wrong EXCEPT ![f] = NoneOption] :
                  f \in {"extra_index", "terminate_codeword", "extra_transcript"} }

\* the transcript bytes handed to verify: the bytes prove returned, no
\* bytes, and the bytes cut after the commitment
TranscriptChoices(bytes) == { bytes, <<>>, SubSeq(bytes, 1, 1) }

\* the calls of verify: every claim on the proved transcript and point; the
\* true and a wrong claim with each choice of optional arguments; the true
\* claim with each other point and with each other transcript, one at a
\* time and together
VerifyInputs(prove_result, query, point, claim) ==
    LET call(b, c, p, a) == [bytes |-> b, claim |-> c, point |-> p, args |-> a]
        bytes == prove_result.transcript_bytes
    IN  { call(bytes, c, point, NoExtra) : c \in ClaimChoices }
        \cup (IF query.status = "ok"
              THEN { call(bytes, c, point, a) :
                        c \in { claim, Add(claim, 1) },
                        a \in ExtraChoices(prove_result, query) }
              ELSE {})
        \cup { call(b, claim, p, NoExtra) :
                  b \in TranscriptChoices(bytes), p \in VerifierPoints(point) }

IdlePcs ==
    /\ commit_output = None
    /\ evaluation_pt = <<>>
    /\ prove_out = None
    /\ extra_query = None
    /\ verify_out = None
    /\ proof_reader = None
    /\ inclusion_out = None

\* the codes of a session: those of at most 2^MaxSessionLogLen scalars
SessionConfigs == { cfg \in CodeConfigs : cfg[1] + cfg[2] <= MaxSessionLogLen }

StartSession ==
    /\ \E cfg \in SessionConfigs :
          /\ fri_params = initialize_fri_context(new(cfg[2], 3, 2, cfg[1], 2), cfg[1]).value
          /\ msg_values \in SessionMessages(pow2(cfg[1]))
          /\ evaluation_pt \in Points(cfg[1])
    /\ codeword = None
    /\ corrupted = <<>>
    /\ erased = <<>>
    /\ recon = None
    /\ decoded = None
    /\ commit_output = None
    /\ prove_out = None
    /\ extra_query = None
    /\ verify_out = None
    /\ proof_reader = None
    /\ inclusion_out = None

Commit ==
    /\ commit_output.status = "none"
    /\ commit_output' = commit(msg_values, fri_params)
    /\ UNCHANGED <<evaluation_pt, prove_out, extra_query, verify_out,
                   proof_reader, inclusion_out>>

Prove ==
    /\ commit_output.status = "ok"
    /\ prove_out.status = "none"
    /\ prove_out' = prove(msg_values, fri_params, commit_output, evaluation_pt)
    /\ UNCHANGED <<commit_output, evaluation_pt, extra_query, verify_out,
                   proof_reader, inclusion_out>>

Open ==
    /\ prove_out.status = "ok"
    /\ extra_query.status = "none"
    /\ verify_out.status = "none"
    /\ \E index \in { 0, pow2(rs_log_len(fri_params)) } :
          extra_query' = [index |-> index] @@ open(index, prove_out.query_prover)
    /\ UNCHANGED <<commit_output, evaluation_pt, prove_out, verify_out,
                   proof_reader, inclusion_out>>

\* verify on a transcript rebuilt from transcript bytes
Verify ==
    /\ prove_out.status = "ok"
    /\ verify_out.status = "none"
    /\ \E call \in VerifyInputs(prove_out, extra_query, evaluation_pt,
                      calculate_evaluation_claim(msg_values, evaluation_pt).value) :
          verify_out' =
              call @@ verify(reconstruct_transcript_from_bytes(call.bytes),
                             call.claim, call.point, fri_params,
                             call.args.extra_index, call.args.terminate_codeword,
                             call.args.layers, call.args.extra_transcript)
    /\ UNCHANGED <<commit_output, evaluation_pt, prove_out, extra_query,
                   proof_reader, inclusion_out>>

\* inclusion_proof at any time after commit, any number of times: each call
\* returns a new proof reader, not yet checked
InclusionProof ==
    /\ commit_output.status = "ok"
    /\ \E index \in 0..Len(commit_output.codeword) :
          proof_reader' = [index |-> index] @@ inclusion_proof(commit_output.committed, index)
    /\ inclusion_out' = None
    /\ UNCHANGED <<commit_output, evaluation_pt, prove_out, extra_query, verify_out>>

VerifyInclusionProof ==
    /\ proof_reader.status = "ok"
    /\ inclusion_out.status = "none"
    /\ \E v \in ValueChoices(commit_output.codeword[proof_reader.index + 1]) :
          inclusion_out' =
              [value |-> v,
               status |-> verify_inclusion_proof(proof_reader.transcript, <<v>>,
                              proof_reader.index, fri_params, commit_output.commitment)]
    /\ UNCHANGED <<commit_output, evaluation_pt, prove_out, extra_query,
                   verify_out, proof_reader>>

(***************************************************************************)
(* The instance as a state machine: an instance is built by new, its FRI   *)
(* context is initialised and evaluation points are drawn.                 *)
(***************************************************************************)
Instances ==
    { new(log_inv_rate, num_test_queries, arity, n_vars, log_num_shares) :
         log_inv_rate \in 0..MaxInstanceLog, num_test_queries \in 2..3, arity \in 1..2,
         n_vars \in 0..MaxInstanceLog, log_num_shares \in 0..(2 * MaxInstanceLog + 1) }

\* No instance in use.
IdleInstance ==
    /\ friVail = new(0, 0, 0, 0, 0)
    /\ fri_context = None
    /\ random_points = <<>>
    /\ claim_out = None

StartInstance ==
    /\ friVail \in Instances
    /\ fri_context = None
    /\ random_points = <<>>
    /\ claim_out = None

InitializeFriContext ==
    /\ fri_context = None
    /\ \E packed_buffer_log_len \in 0..MaxInstanceLog :
          fri_context' = [packed_buffer_log_len |-> packed_buffer_log_len]
                             @@ initialize_fri_context(friVail, packed_buffer_log_len)
    /\ UNCHANGED <<friVail, random_points, claim_out>>

CalculateEvaluationPointRandom ==
    /\ Len(random_points) < MaxCalls
    /\ random_points' = Append(random_points, calculate_evaluation_point_random(friVail))
    /\ UNCHANGED <<friVail, fri_context, claim_out>>

(***************************************************************************)
(* The prover's side as a state machine: on an initialised instance the    *)
(* vector is encoded by encode_codeword and committed by commit, its       *)
(* evaluation claim is computed and proved, and a position of the          *)
(* committed codeword is opened and checked.                               *)
(***************************************************************************)
\* the points of the prover: those of the sessions and two points of the
\* Boolean cube (bits 1,0,1,.. and all ones)
ProverPoints(n) ==
    Points(n) \cup { [i \in 1..n |-> i % 2], [i \in 1..n |-> 1] }

StartProver ==
    /\ \E cfg \in CodeConfigs :
          /\ friVail = new(cfg[2], 3, 2, cfg[1], 2)
          /\ fri_context = [packed_buffer_log_len |-> friVail.n_vars]
                               @@ initialize_fri_context(friVail, friVail.n_vars)
          /\ fri_params = fri_context.value
          /\ msg_values \in SessionMessages(pow2(cfg[1]))
          /\ evaluation_pt \in ProverPoints(cfg[1])
    /\ random_points = <<>>
    /\ claim_out = None
    /\ codeword = None
    /\ corrupted = <<>>
    /\ erased = <<>>
    /\ recon = None
    /\ decoded = None
    /\ commit_output = None
    /\ prove_out = None
    /\ extra_query = None
    /\ verify_out = None
    /\ proof_reader = None
    /\ inclusion_out = None
    /\ IdleMle

CalculateEvaluationClaim ==
    /\ claim_out.status = "none"
    /\ claim_out' = calculate_evaluation_claim(msg_values, evaluation_pt)
    /\ UNCHANGED <<friVail, fri_context, random_points>>

(***************************************************************************)
(* One verifier transcript object and the calls made on it.                *)
(***************************************************************************)
IdleTranscript ==
    /\ verifier_transcript = reconstruct_transcript_from_bytes(<<>>)
    /\ calls = <<>>

\* the byte strings a transcript object is built from: the bytes prove
\* returned, the bytes of an inclusion proof, each of them twice in a row,
\* and no bytes
TranscriptSources == { "proved", "proved twice", "opened", "opened twice", "empty" }

TranscriptSource(source, prove_result, reader) ==
    LET proved == prove_result.transcript_bytes
        opened == reader.transcript.bytes
    IN  CASE source = "proved" -> proved
          [] source = "proved twice" -> proved \o proved
          [] source = "opened" -> opened
          [] source = "opened twice" -> opened \o opened
          [] source = "empty" -> <<>>

\* a session after commit, prove and inclusion_proof, and a transcript
\* object built by reconstruct_transcript_from_bytes
StartTranscript ==
    /\ \E cfg \in SessionConfigs :
          /\ fri_params = initialize_fri_context(new(cfg[2], 3, 2, cfg[1], 2), cfg[1]).value
          /\ msg_values \in SessionMessages(pow2(cfg[1]))
          /\ evaluation_pt \in Points(cfg[1])
    /\ codeword = None
    /\ corrupted = <<>>
    /\ erased = <<>>
    /\ recon = None
    /\ decoded = None
    /\ commit_output = commit(msg_values, fri_params)
    /\ prove_out = prove(msg_values, fri_params, commit_output, evaluation_pt)
    /\ extra_query = None
    /\ verify_out = None
    /\ \E index \in { 0, Len(commit_output.codeword) - 1 } :
          proof_reader = [index |-> index] @@ inclusion_proof(commit_output.committed, index)
    /\ inclusion_out = None
    /\ \E source \in TranscriptSources :
          verifier_transcript = reconstruct_transcript_from_bytes(
                                    TranscriptSource(source, prove_out, proof_reader))
    /\ calls = <<>>

\* the record of one call on the transcript object
CallRecord(name, status, before, after) ==
    [call |-> name, status |-> status, before |-> before, after |-> after]

\* verify on the object, with the true claim and the proved point
CallVerify ==
    /\ Len(calls) < MaxTranscriptCalls
    /\ \E r \in { verify(verifier_transcript,
                         calculate_evaluation_claim(msg_values, evaluation_pt).value,
                         evaluation_pt, fri_params,
                         NoneOption, NoneOption, NoneOption, NoneOption) } :
          /\ verifier_transcript' = r.transcript
          /\ calls' = Append(calls, CallRecord("verify", r.status, verifier_transcript, r.transcript))

\* verify_inclusion_proof on the object, for the opened index and the
\* committed value
CallVerifyInclusionProof ==
    /\ Len(calls) < MaxTranscriptCalls
    /\ \E status \in { verify_inclusion_proof(
                           verifier_transcript, <<commit_output.codeword[proof_reader.index + 1]>>,
                           proof_reader.index, fri_params, commit_output.commitment) } :
       \E after \in verify_inclusion_proof_reader(verifier_transcript, proof_reader.index, fri_params) :
          /\ verifier_transcript' = after
          /\ calls' = Append(calls, CallRecord("verify_inclusion_proof", status,
                                               verifier_transcript, after))

CallExtractCommitment ==
    /\ Len(calls) < MaxTranscriptCalls
    /\ \E r \in { extract_commitment(verifier_transcript) } :
          /\ verifier_transcript' = r.transcript
          /\ calls' = Append(calls, CallRecord("extract_commitment", r.status,
                                               verifier_transcript, r.transcript))

CallGetTranscriptBytes ==
    /\ Len(calls) < MaxTranscriptCalls
    /\ \E r \in { get_transcript_bytes(verifier_transcript) } :
          /\ verifier_transcript' = r.transcript
          /\ calls' = Append(calls, [bytes |-> r.bytes] @@
                                    CallRecord("get_transcript_bytes", "ok",
                                               verifier_transcript, r.transcript))

vars == <<varsMle, varsCode, varsPcs, varsInstance, varsTranscript>>

InitProver == StartProver /\ IdleTranscript

\* the prover's flow opens one position of each commitment
NextProver ==
    \/ EncodeCodeword /\ UNCHANGED <<varsMle, varsPcs, varsInstance, varsTranscript>>
    \/ CalculateEvaluationClaim /\ UNCHANGED <<varsMle, varsCode, varsPcs, varsTranscript>>
    \/ Commit /\ UNCHANGED <<varsMle, varsCode, varsInstance, varsTranscript>>
    \/ Prove /\ UNCHANGED <<varsMle, varsCode, varsInstance, varsTranscript>>
    \/ /\ proof_reader.status = "none"
       /\ InclusionProof
       /\ UNCHANGED <<varsMle, varsCode, varsInstance, varsTranscript>>
    \/ VerifyInclusionProof /\ UNCHANGED <<varsMle, varsCode, varsInstance, varsTranscript>>

SpecProver == InitProver /\ [][NextProver]_vars

InitInstance == StartInstance /\ IdleMle /\ IdleCode /\ IdlePcs /\ IdleTranscript

NextInstance ==
    \/ InitializeFriContext /\ UNCHANGED <<varsMle, varsCode, varsPcs, varsTranscript>>
    \/ CalculateEvaluationPointRandom /\ UNCHANGED <<varsMle, varsCode, varsPcs, varsTranscript>>

SpecInstance == InitInstance /\ [][NextInstance]_vars

InitMle == StartMle /\ IdleCode /\ IdlePcs /\ IdleInstance /\ IdleTranscript

NextMle == CallBytesToPackedMle /\ UNCHANGED <<varsCode, varsPcs, varsInstance, varsTranscript>>

SpecMle == InitMle /\ [][NextMle]_vars

InitCode == StartCode /\ IdleMle /\ IdlePcs /\ IdleInstance /\ IdleTranscript

NextCode ==
    \/ EncodeCodeword /\ UNCHANGED <<varsMle, varsPcs, varsInstance, varsTranscript>>
    \/ DecodeCodeword /\ UNCHANGED <<varsMle, varsPcs, varsInstance, varsTranscript>>
    \/ ReconstructCodewordNaive /\ UNCHANGED <<varsMle, varsPcs, varsInstance, varsTranscript>>

SpecCode == InitCode /\ [][NextCode]_vars

Init == StartSession /\ IdleMle /\ IdleInstance /\ IdleTranscript

Next ==
    \/ Commit /\ UNCHANGED <<varsMle, varsCode, varsInstance, varsTranscript>>
    \/ Prove /\ UNCHANGED <<varsMle, varsCode, varsInstance, varsTranscript>>
    \/ Open /\ UNCHANGED <<varsMle, varsCode, varsInstance, varsTranscript>>
    \/ Verify /\ UNCHANGED <<varsMle, varsCode, varsInstance, varsTranscript>>
    \/ InclusionProof /\ UNCHANGED <<varsMle, varsCode, varsInstance, varsTranscript>>
    \/ VerifyInclusionProof /\ UNCHANGED <<varsMle, varsCode, varsInstance, varsTranscript>>

Spec == Init /\ [][Next]_vars

InitTranscript == StartTranscript /\ IdleMle /\ IdleInstance

NextTranscript ==
    \/ CallVerify /\ UNCHANGED <<varsMle, varsCode, varsPcs, varsInstance>>
    \/ CallVerifyInclusionProof /\ UNCHANGED <<varsMle, varsCode, varsPcs, varsInstance>>
    \/ CallExtractCommitment /\ UNCHANGED <<varsMle, varsCode, varsPcs, varsInstance>>
    \/ CallGetTranscriptBytes /\ UNCHANGED <<varsMle, varsCode, varsPcs, varsInstance>>

SpecTranscript == InitTranscript /\ [][NextTranscript]_vars

(***************************************************************************)
(* Claims about bytes_to_packed_mle (checked under SpecMle).               *)
(***************************************************************************)
Converted == packed.status # "none"

\* The number of 16-byte chunks of the input, stated without div_ceil:
\* the least c with 16 * c >= |data|.
NumChunks == CHOOSE c \in 0..Len(data) : 16 * c >= Len(data) /\ (c = 0 \/ 16 * (c - 1) < Len(data))

\* Byte k (1..16) of the zero-extended chunk i (1-based) of the input.
InputByte(i, k) ==
    IF 16 * (i - 1) + k <= Len(data) THEN data[16 * (i - 1) + k] ELSE 0

\* C7: bytes_to_packed_mle never drops input data: the output has at least
\* ceil(|data| / 16) scalars and every 16-byte chunk of the input is present
\* as the scalar at its position.
C7_NoInputDropped ==
    Converted =>
        /\ Len(packed.packed_values) >= NumChunks
        /\ \A i \in 1..NumChunks : \A k \in 1..16 :
               i <= Len(packed.packed_values) /\ packed.packed_values[i][k] = InputByte(i, k)

C10_ScalarLayout ==
    Converted =>
        \A i \in 1..Len(packed.packed_values) : \A k \in 1..16 :
            packed.packed_values[i][k] = InputByte(i, k)

\* C10 witness: a 9-byte input whose last byte is nonzero, kept as the low
\* 9 bytes of scalar 0 with the high bytes zero.
C10_Witness ==
    /\ Converted
    /\ Len(data) = 9
    /\ data[9] # 0
    /\ packed.packed_values[1][9] = data[9]
    /\ packed.packed_values[1][10] = 0

(***************************************************************************)
(* Claims about the coding utilities (checked under SpecCode).             *)
(***************************************************************************)
\* C3: encode/decode round trip: decoding the codeword of a vector of
\* 2^log_dim scalars returns ok with exactly that vector.
C3_DecodeEncode ==
    (decoded.status # "none" /\ decoded.input = codeword.codeword) =>
        /\ decoded.status = "ok"
        /\ decoded.decoded = msg_values

\* C3 witness: a codeword with redundancy, different from the repeated
\* message, decoded back to a message of 4 scalars that are not all equal.
C3_Witness ==
    /\ decoded.status = "ok"
    /\ decoded.input = codeword.codeword
    /\ fri_params.log_dim = 2
    /\ fri_params.log_inv_rate = 1
    /\ msg_values[1] # msg_values[2]
    /\ SubSeq(codeword.codeword, 1, 4) # msg_values
    /\ decoded.decoded = msg_values

ErasedSet == { erased[p] : p \in 1..Len(erased) }

\* The degree bound of the code: a codeword is the evaluation of a
\* polynomial of degree at most 2^log_dim - 1.
CodeDegree == pow2(fri_params.log_dim) - 1

\* C4: erasure recovery: for a codeword of encode_codeword and a set E of
\* erased positions with |E| < n - degree - 1 and |E| < n, overwriting the
\* positions of E and calling reconstruct_codeword_naive with E restores
\* the codeword exactly.
C4_ErasureRecovery ==
    LET n == Len(codeword.codeword) IN
    (/\ recon.status # "none"
     /\ \A e \in ErasedSet : e < n
     /\ Cardinality(ErasedSet) < n - CodeDegree - 1
     /\ Cardinality(ErasedSet) < n)
    => /\ recon.status = "ok"
       /\ recon.codeword = codeword.codeword

\* C4 witness: two positions of an 8-scalar codeword of a 4-scalar message
\* are overwritten with a different value and restored.
C4_Witness ==
    /\ recon.status = "ok"
    /\ Len(codeword.codeword) = 8
    /\ fri_params.log_dim = 2
    /\ Cardinality(ErasedSet) = 2
    /\ \A e \in ErasedSet : e < 8 /\ corrupted[e + 1] # codeword.codeword[e + 1]
    /\ recon.codeword = codeword.codeword

\* The known set K of a reconstruct call: the positions of the codeword not
\* listed as erased.
KnownSet == { i \in 0..(Len(corrupted) - 1) : i \notin ErasedSet }

\* C8: reconstruct_codeword_naive fails if and only if the known set K is
\* empty: it returns an error for every input with K empty and returns ok,
\* without aborting, for every input with K non-empty.
C8_FailsIffNoKnownPoint ==
    recon.status # "none" =>
        /\ KnownSet = {} => recon.status = "err"
        /\ KnownSet # {} => recon.status = "ok"

(***************************************************************************)
(* Claims about the commit / prove / verify session (checked under Spec).  *)
(***************************************************************************)
\* The multilinear extension of v at r, by folding the last variable:
\* v(r) = (1 - r_n) * v_low(r_1..r_{n-1}) + r_n * v_high(r_1..r_{n-1}).
RECURSIVE MleAt(_, _)
MleAt(v, r) ==
    IF Len(r) = 0 THEN v[1]
    ELSE LET n == Len(r)
             half == Len(v) \div 2
             rest == SubSeq(r, 1, n - 1)
         IN  Add(Mul(Sub(1, r[n]), MleAt(SubSeq(v, 1, half), rest)),
                 Mul(r[n], MleAt(SubSeq(v, half + 1, Len(v)), rest)))

\* y = <v, eq(r, .)> for the committed MLE and the proved point
TrueClaim == MleAt(msg_values, evaluation_pt)

\* verify was given all four optional arguments as the tests build them
FullExtraSupplied ==
    /\ verify_out.status # "none"
    /\ extra_query.status = "ok"
    /\ verify_out.args = FullExtra(prove_out, extra_query)

\* verify was called with the proved point on the transcript prove returned
VerifiedAtProvedPoint ==
    /\ verify_out.status # "none"
    /\ verify_out.bytes = prove_out.transcript_bytes
    /\ verify_out.point = evaluation_pt

\* C1: completeness: after commit and prove, verify on the transcript
\* rebuilt from the returned bytes, with the claim y = <v, eq(r, .)> and the
\* proved point r, returns ok, with and without the extra-query arguments
\* built from open(0, query_prover) and the query prover's layers.
C1_Completeness ==
    (/\ VerifiedAtProvedPoint
     /\ verify_out.claim = TrueClaim
     /\ (verify_out.args = NoExtra \/ FullExtraSupplied))
    => verify_out.status = "ok"

C1_Witness ==
    /\ VerifiedAtProvedPoint
    /\ verify_out.claim = TrueClaim
    /\ FullExtraSupplied
    /\ verify_out.status = "ok"
    /\ fri_params.log_dim = 1
    /\ fri_params.log_inv_rate = 1
    /\ TrueClaim # 0
    /\ extra_query.index = 0

\* C2: a wrong claim is rejected: verify on the transcript prove produced
\* for (v, r), called with the point r and a value different from
\* y = <v, eq(r, .)>, returns an error.
C2_WrongClaimRejected ==
    (VerifiedAtProvedPoint /\ verify_out.claim # TrueClaim) => verify_out.status = "err"

C2_Witness ==
    /\ VerifiedAtProvedPoint
    /\ verify_out.claim = Scalar_from(42)
    /\ verify_out.claim # TrueClaim
    /\ verify_out.status = "err"
    /\ fri_params.log_dim = 1
    /\ fri_params.log_inv_rate = 1

\* the codeword position opened by inclusion_proof is inside the codeword
OpenedInRange ==
    /\ proof_reader.status # "none"
    /\ (proof_reader.index + 1) \in DOMAIN commit_output.codeword

C6_InclusionBinding ==
    (/\ OpenedInRange
     /\ inclusion_out.status # "none"
     /\ inclusion_out.value # commit_output.codeword[proof_reader.index + 1])
    => inclusion_out.status = "err"

C6_Witness ==
    /\ OpenedInRange
    /\ DOMAIN commit_output.codeword = 1..4
    /\ proof_reader.index = 2
    /\ inclusion_out.status = "err"
    /\ inclusion_out.value = Add(commit_output.codeword[3], 1)


\* verify was given all four optional arguments, whatever their values
CrossCheckSupplied ==
    /\ verify_out.status # "none"
    /\ verify_out.args.extra_index.some
    /\ verify_out.args.terminate_codeword.some
    /\ verify_out.args.layers.some
    /\ verify_out.args.extra_transcript.some

\* C11: when the optional cross-check is supplied, verify returns ok only
\* if verify_layer checked a supplied layer for the codeword commitment and
\* for every FRI round commitment, whatever the length of the layers list
C11_EveryCommitmentChecked ==
    (CrossCheckSupplied /\ verify_out.status = "ok")
    => verify_out.checked = verify_out.commitments

\* C12: verify returns ok or an error for every input (any transcript
\* bytes, any claim, an evaluation point shorter than, equal to or longer
\* than log_dim + log_batch_size, any combination of the optional
\* arguments); it never aborts
C12_VerifyNeverAborts ==
    verify_out.status \in {"none", "ok", "err"}

\* C13: every instance on which new and initialize_fri_context succeed has
\* log_num_shares <= n_vars + log_inv_rate; a configuration that violates
\* this is reported as an error by initialize_fri_context
C13_SharesWithinCodeLength ==
    (fri_context # None /\ fri_context.status = "ok")
    => friVail.log_num_shares <= friVail.n_vars + friVail.log_inv_rate

\* C17: calculate_evaluation_point_random returns ok with exactly n_vars
\* scalars, and any two calls on the same instance return equal vectors
C17_RandomPointFixed ==
    \A k \in DOMAIN random_points :
        /\ random_points[k].status = "ok"
        /\ Len(random_points[k].value) = friVail.n_vars
        /\ \A j \in DOMAIN random_points : random_points[j].value = random_points[k].value

C17_Witness ==
    /\ Len(random_points) = 2
    /\ friVail.n_vars = 2
    /\ random_points[2].status = "ok"
    /\ random_points[2].value[1] # random_points[2].value[2]

RECURSIVE EqAt(_, _, _)
EqAt(r, x, i) ==
    IF i > Len(r) THEN 1
    ELSE LET x_i == (x \div pow2(i - 1)) % 2
         IN  Mul(Add(Mul(r[i], x_i), Mul(Sub(1, r[i]), Sub(1, x_i))), EqAt(r, x, i + 1))

\* the sum over x = k, .., Len(v) - 1 of v[x] * eq(r, x)
RECURSIVE EqSum(_, _, _)
EqSum(v, r, k) ==
    IF k >= Len(v) THEN 0
    ELSE Add(Mul(v[k + 1], EqAt(r, k, 1)), EqSum(v, r, k + 1))

IsBoolean(r) == \A i \in 1..Len(r) : r[i] \in {0, 1}

\* the index whose bit i - 1 is r_i (little-endian)
RECURSIVE IndexOf(_, _)
IndexOf(r, i) ==
    IF i > Len(r) THEN 0 ELSE r[i] * pow2(i - 1) + IndexOf(r, i + 1)

\* C18: calculate_evaluation_claim(values, r) is the sum over the cube of
\* values[x] * eq(r, x) with little-endian indexing, the value of the
\* multilinear extension at r; prove computes the same value for its proof;
\* for a Boolean r it is values[index(r)]
C18_ClaimIsMleEvaluation ==
    claim_out.status # "none" =>
        /\ claim_out.status = "ok"
        /\ claim_out.value = EqSum(msg_values, evaluation_pt, 0)
        /\ claim_out.value = MleAt(msg_values, evaluation_pt)
        /\ prove_out.status = "ok" =>
               prove_out.transcript_bytes[2].claim = claim_out.value
        /\ IsBoolean(evaluation_pt) =>
               claim_out.value = msg_values[IndexOf(evaluation_pt, 1) + 1]

\* C18 witness: the claim of a vector of 4 scalars at the Boolean point
\* (1, 0), which selects values[1], computed by both calls
C18_Witness ==
    /\ claim_out.status = "ok"
    /\ prove_out.status = "ok"
    /\ evaluation_pt = <<1, 0>>
    /\ msg_values[2] # msg_values[3]
    /\ claim_out.value = msg_values[2]

\* C19: the codeword returned by encode_codeword and the one stored by
\* commit have exactly 1 << (n_vars + log_inv_rate) scalars, and the tree
\* depth verify_inclusion_proof uses is log2 of that length
C19_CodewordLength ==
    LET len == pow2(friVail.n_vars + friVail.log_inv_rate) IN
    /\ codeword.status = "ok" => DOMAIN codeword.codeword = 1..len
    /\ commit_output.status = "ok" => DOMAIN commit_output.codeword = 1..len
    /\ inclusion_out.status # "none" =>
           /\ DOMAIN commit_output.codeword = 1..pow2(tree_depth(fri_params))
           /\ tree_depth(fri_params) = commit_output.committed.log_len

\* C19 witness: a codeword of 8 scalars for a vector of 4, encoded,
\* committed and opened under a tree of depth 3
C19_Witness ==
    /\ friVail.n_vars = 2
    /\ friVail.log_inv_rate = 1
    /\ codeword.status = "ok"
    /\ commit_output.status = "ok"
    /\ inclusion_out.status = "ok"
    /\ DOMAIN codeword.codeword = 1..8
    /\ tree_depth(fri_params) = 3

\* C20: encode_codeword on the flat values returns, position by position,
\* the codeword commit stores
C20_EncodeMatchesCommit ==
    (codeword.status = "ok" /\ commit_output.status = "ok") =>
        /\ DOMAIN codeword.codeword = DOMAIN commit_output.codeword
        /\ \A i \in DOMAIN commit_output.codeword :
               codeword.codeword[i] = commit_output.codeword[i]

\* C20 witness: both codewords of a vector of 2 scalars at rate 1/4, with
\* redundancy that is not a copy of the vector
C20_Witness ==
    /\ codeword.status = "ok"
    /\ commit_output.status = "ok"
    /\ fri_params.log_dim = 1
    /\ fri_params.log_inv_rate = 2
    /\ SubSeq(commit_output.codeword, 3, 4) # msg_values
    /\ codeword.codeword = commit_output.codeword

(***************************************************************************)
(* Claims about the FRI context (checked under SpecInstance).              *)
(***************************************************************************)
\* C22: whenever initialize_fri_context(L) succeeds, the returned FRI
\* parameters have the instance's log_inv_rate and num_test_queries,
\* log_batch_size 0 and Reed-Solomon log dimension L, so that the log
\* length of the code is L + log_inv_rate
C22_ContextParameters ==
    fri_context.status = "ok" =>
        /\ fri_context.value.log_inv_rate = friVail.log_inv_rate
        /\ fri_context.value.n_test_queries = friVail.num_test_queries
        /\ fri_context.value.log_batch_size = 0
        /\ fri_context.value.log_dim = fri_context.packed_buffer_log_len
        /\ rs_log_len(fri_context.value)
               = fri_context.packed_buffer_log_len + friVail.log_inv_rate

\* C22 witness: a context of message length 2 on an instance of n_vars 1
\* whose rate and number of queries differ
C22_Witness ==
    /\ fri_context.status = "ok"
    /\ fri_context.packed_buffer_log_len = 2
    /\ friVail.n_vars = 1
    /\ friVail.log_inv_rate = 1
    /\ friVail.num_test_queries = 3

(***************************************************************************)
(* Further claims about the coding utilities (checked under SpecCode).     *)
(***************************************************************************)
\* C24: decode_batch applies butterflies for exactly the layers
\* log_inv_rate <= layer < log_len - log_batch_size, from the highest down
\* to the lowest, and each of its butterflies undoes the forward butterfly
\* with the same twiddle, for every pair (u, v) and every twiddle; the
\* forward layers applied to its output give back its input
C24_DecodeBatchInvertsForward ==
    decoded.status = "ok" =>
        LET log_len == rs_log_len(fri_params)
            top == log_len - fri_params.log_batch_size
            batch == decoded.decode_batch
        IN  /\ Len(batch.layers) = top - fri_params.log_inv_rate
            /\ \A k \in DOMAIN batch.layers :
                   /\ fri_params.log_inv_rate <= batch.layers[k]
                   /\ batch.layers[k] < top
                   /\ k > 1 => batch.layers[k] < batch.layers[k - 1]
            /\ \A u \in FieldElems, v \in FieldElems, t \in FieldElems :
                   LET fwd == forward_butterfly(u, v, t)
                   IN  butterfly(fwd[1], fwd[2], t) = <<u, v>>
            /\ \A i \in DOMAIN decoded.input :
                   forward_layers(log_len + fri_params.log_batch_size, batch.output,
                                  fri_params.log_inv_rate, top)[i] = decoded.input[i]

\* C24 witness: two layers, 2 then 1, undone on a vector of 8 scalars that
\* is not a codeword
C24_Witness ==
    /\ decoded.status = "ok"
    /\ fri_params.log_dim = 2
    /\ fri_params.log_inv_rate = 1
    /\ decoded.decode_batch.layers = <<2, 1>>
    /\ decoded.input # codeword.codeword

\* the known points of the reconstruct call of the state
KnownPoints == known_points(corrupted, erased)

\* C25: in every call of reconstruct_codeword_naive, for any codeword and
\* any erased-index list, lists with repeated indices included, every
\* difference x_j - x_m that interpolate_at_point inverts is nonzero, so
\* the inversion never fails: a call whose indices are all inside the
\* codeword ends ok or with an error
C25_DifferencesInvertible ==
    recon.status # "none" =>
        /\ \A known \in { KnownPoints } :
              \A j \in DOMAIN known : \A m \in DOMAIN known :
                  m # j =>
                      /\ Sub(known[j][1], known[m][1]) # 0
                      /\ invert(Sub(known[j][1], known[m][1])).some
        /\ (\A e \in ErasedSet : e < Len(corrupted)) => recon.status \in {"ok", "err"}

\* C25 witness: a call with the index 1 listed twice on a codeword of 8
\* scalars, interpolated from 7 known points
C25_Witness ==
    /\ recon.status = "ok"
    /\ erased = <<1, 1>>
    /\ Len(corrupted) = 8
    /\ Len(KnownPoints) = 7

\* the rearrangements of a list
Rearrangements(list) ==
    { [i \in 1..Len(list) |-> list[p[i]]] :
         p \in { q \in [1..Len(list) -> 1..Len(list)] :
                    \A a \in 1..Len(list) : \E b \in 1..Len(list) : q[b] = a } }

\* C26: reconstruct_codeword_naive is order-independent: the codeword after
\* the call is the same for every permutation of the erased-index list and
\* the same in the parallel and in the sequential variant
C26_OrderIndependent ==
    recon.status # "none" =>
        \A list \in Rearrangements(erased) : \A par \in BOOLEAN :
            reconstruct_codeword_naive(corrupted, list)[par].codeword = recon.codeword

\* the calls of reconstruct_codeword_naive whose indices all lie inside the
\* codeword are order-independent
OrderIndependentInRange ==
    (recon.status # "none" /\ \A e \in ErasedSet : e < Len(corrupted)) =>
        \A list \in Rearrangements(erased) : \A par \in BOOLEAN :
            LET other == reconstruct_codeword_naive(corrupted, list)[par]
            IN  other.status = recon.status /\ other.codeword = recon.codeword

\* C27: reconstruct_codeword_naive changes only cells whose index is in the
\* erased-index list: every other position holds the same value after the
\* call as before, and when the call returns an error or the list is empty
\* the whole codeword is unchanged
C27_OnlyErasedCellsChange ==
    recon.status # "none" =>
        /\ DOMAIN recon.codeword = DOMAIN corrupted
        /\ \A i \in DOMAIN corrupted :
               (i - 1) \notin ErasedSet => recon.codeword[i] = corrupted[i]
        /\ (recon.status = "err" \/ erased = <<>>) =>
               \A i \in DOMAIN corrupted : recon.codeword[i] = corrupted[i]

\* C27 witness: two cells of a codeword of 8 scalars rewritten, with a
\* nonzero cell outside the list left as it was
C27_Witness ==
    /\ recon.status = "ok"
    /\ Len(corrupted) = 8
    /\ erased = <<2, 5>>
    /\ recon.codeword[3] # corrupted[3]
    /\ recon.codeword[6] # corrupted[6]
    /\ corrupted[4] # 0

(***************************************************************************)
(* Further claims about the session (checked under Spec).                  *)
(***************************************************************************)
\* the outcome of the inclusion check of the state is the one the commit
\* output, the index and the value determine
InclusionOutcomeOfCommit ==
    (inclusion_out.status # "none" /\ OpenedInRange) =>
        (inclusion_out.status = "ok"
         <=> inclusion_out.value = commit_output.codeword[proof_reader.index + 1])

\* an inclusion proof is produced exactly for the positions of the codeword
InclusionProofOfCommit ==
    proof_reader.status # "none" =>
        (proof_reader.status = "ok"
         <=> (proof_reader.index + 1) \in DOMAIN commit_output.codeword)

\* C21: inclusion proofs are independent of the evaluation proof: after
\* commit, inclusion_proof followed by verify_inclusion_proof for an index
\* gives the outcome the commit output determines, before prove, after
\* prove or interleaved with open and verify, any number of times; prove,
\* open and verify leave the commit output unchanged; open is possible
\* only with the query prover of a completed prove
C21_InclusionIndependentOfProof ==
    /\ [](InclusionOutcomeOfCommit /\ InclusionProofOfCommit)
    /\ [](extra_query.status # "none" => prove_out.status = "ok")
    /\ [][commit_output.status = "ok" => commit_output' = commit_output]_vars
    /\ [][(proof_reader' # proof_reader /\ proof_reader'.status = "ok")
              => (commit_output.status = "ok" /\ inclusion_out'.status = "none")]_vars

\* C21 witness: an inclusion check that succeeds after prove, open and a
\* successful verify, on a codeword of 4 scalars
C21_Witness ==
    /\ inclusion_out.status = "ok"
    /\ proof_reader.index = 3
    /\ DOMAIN commit_output.codeword = 1..4
    /\ prove_out.status = "ok"
    /\ extra_query.status = "ok"
    /\ verify_out.status = "ok"

\* the verify call of the state with its optional arguments taken away
VerifyWithoutExtra ==
    verify(reconstruct_transcript_from_bytes(verify_out.bytes),
           verify_out.claim, verify_out.point, fri_params,
           NoneOption, NoneOption, NoneOption, NoneOption)

\* C28: verify runs the extra-query cross-check only when all four optional
\* arguments are supplied; if any of them is missing the supplied ones are
\* ignored and verify returns exactly the result of the main check; when
\* the main check fails the cross-check is never run
C28_CrossCheckOnlyWithAllFour ==
    verify_out.status # "none" =>
        /\ verify_out.cross_checked => (CrossCheckSupplied /\ verify_out.main = "ok")
        /\ (CrossCheckSupplied /\ verify_out.main = "ok") => verify_out.cross_checked
        /\ ~CrossCheckSupplied =>
              /\ verify_out.status = VerifyWithoutExtra.status
              /\ verify_out.transcript = VerifyWithoutExtra.transcript
              /\ verify_out.checked = 0
              /\ verify_out.main \in {"ok", "err"} => verify_out.status = verify_out.main
        /\ verify_out.main = "err" =>
              (verify_out.status = "err" /\ ~verify_out.cross_checked)

\* C28 witness: verify returns ok when handed a first layer of another tree
\* together with the terminal codeword and open's transcript, the index
\* left out
C28_Witness ==
    /\ verify_out.status = "ok"
    /\ extra_query.status = "ok"
    /\ ~verify_out.args.extra_index.some
    /\ verify_out.args.terminate_codeword.some
    /\ verify_out.args.extra_transcript.some
    /\ verify_out.args.layers.some
    /\ verify_out.args.layers # FullExtra(prove_out, extra_query).layers
    /\ ~verify_out.cross_checked

\* the message prove writes for the commitment of the commit output
CommitmentMessage == digest_message(commit_output.commitment)

\* C23: the first message of the transcript bytes prove returns is the
\* commitment of the given commit output, written before any other prover
\* message; verify reads that commitment as its first action, before any
\* other check: on no bytes it fails without reading, whatever the point,
\* on any other bytes it has read the first message when it returns or
\* aborts, and it returns ok only if that message is the commitment
C23_CommitmentFirst ==
    /\ prove_out.status = "ok" =>
          /\ DOMAIN prove_out.transcript_bytes = 1..2
          /\ prove_out.transcript_bytes[1] = CommitmentMessage
          /\ prove_out.transcript_bytes[2].kind = "pcs"
    /\ verify_out.status # "none" =>
          /\ verify_out.bytes = <<>> =>
                (verify_out.status = "err" /\ verify_out.transcript.pos = 0)
          /\ verify_out.bytes # <<>> => verify_out.transcript.pos >= 1
          /\ verify_out.status = "panic" => verify_out.transcript.pos = 1
          /\ verify_out.status = "ok" => verify_out.bytes[1] = CommitmentMessage

\* C23 witness: verify on no bytes with a point one coordinate short
\* returns the read error of the commitment
C23_Witness ==
    /\ prove_out.status = "ok"
    /\ verify_out.status = "err"
    /\ verify_out.bytes = <<>>
    /\ Len(verify_out.point) + 1 = Len(evaluation_pt)
    /\ verify_out.transcript.pos = 0

(***************************************************************************)
(* Claims about the transcript utilities and the consumption of a          *)
(* transcript object (checked under SpecTranscript).                       *)
(***************************************************************************)
\* the unread part of a transcript
Unread(t) == SubSeq(t.bytes, t.pos + 1, Len(t.bytes))

\* C29: transcript byte round trip: get_transcript_bytes of the transcript
\* rebuilt from a byte string b is b, for the byte strings of the objects
\* and each of their suffixes, and get_transcript_bytes leaves the
\* transcript it is given unchanged (the read position does not move)
C29_TranscriptBytesRoundTrip ==
    /\ \A p \in 0..Len(verifier_transcript.bytes) :
          LET b == SubSeq(verifier_transcript.bytes, p + 1, Len(verifier_transcript.bytes))
          IN  get_transcript_bytes(reconstruct_transcript_from_bytes(b)).bytes = b
    /\ \A i \in DOMAIN calls :
          calls[i].call = "get_transcript_bytes" =>
              /\ calls[i].after = calls[i].before
              /\ calls[i].before.pos = 0 => calls[i].bytes = calls[i].before.bytes
              /\ i < Len(calls) => calls[i + 1].before = calls[i].before

\* C29 witness: get_transcript_bytes on a new transcript of prove returns
\* the bytes of prove, and verify on the same object then returns ok
C29_Witness ==
    /\ Len(calls) >= 2
    /\ calls[1].call = "get_transcript_bytes"
    /\ calls[1].bytes = prove_out.transcript_bytes
    /\ Len(calls[1].bytes) = 2
    /\ calls[2].call = "verify"
    /\ calls[2].status = "ok"

\* the three calls that read from the transcript object
Consuming == { "verify", "verify_inclusion_proof", "extract_commitment" }

\* in every call the object keeps its bytes and the position does not go
\* back; each call starts where the one before ended
PositionOnlyForward ==
    \A i \in DOMAIN calls :
        /\ calls[i].after.bytes = calls[i].before.bytes
        /\ calls[i].after.pos >= calls[i].before.pos
        /\ calls[i].after.pos <= Len(calls[i].after.bytes)
        /\ i < Len(calls) => calls[i + 1].before = calls[i].after

\* get_transcript_bytes returns the unread suffix of the object
BytesAreUnreadSuffix ==
    \A i \in DOMAIN calls :
        calls[i].call = "get_transcript_bytes" =>
            /\ calls[i].bytes = Unread(calls[i].before)
            /\ SubSeq(calls[i].before.bytes, 1, calls[i].before.pos) \o calls[i].bytes
                  = calls[i].before.bytes

BuiltFromProve == verifier_transcript.bytes = prove_out.transcript_bytes

\* the object was built from the bytes of inclusion_proof
BuiltFromInclusionProof == verifier_transcript.bytes = proof_reader.transcript.bytes

=============================================================================
